---------------------------- MODULE Spec2Model ----------------------------
(***************************************************************************)
(* A model of translator_app.py: the memoizing translate_text_string (the  *)
(* spec's translate_unit), the CSV / TXT / Excel walkers built on it, and   *)
(* the dispatch in main().                                                  *)
(*                                                                          *)
(* A text is a sequence of one-character strings.  A value is what a cell   *)
(* can hold: Python None, a float NaN (pandas' missing cell) or a str.      *)
(* The module-level dict `cache` lives as long as the module object; the    *)
(* provider (translator.translate) is external and is modelled as a         *)
(* nondeterministic choice between raising and returning some text.         *)
(***************************************************************************)
EXTENDS Integers, Sequences, FiniteSets, TLC

VARIABLES
    cache,   \* the module-level dict: text -> text            (line 14)
    tu,      \* the frame of the current / last translate_text_string call
    op,      \* the current / last operation that calls it
    ui,      \* what main() has shown for the current operation
    log,     \* history: provider successes <<pair, text, result>>
    first,   \* history: text -> result of the first provider success
    nops     \* direct calls made so far

vars == <<cache, tu, op, ui, log, first, nops>>

---------------------------------------------------------------------------
\* Bounds of the model.

\* direct calls of translate_text_string in one run
MaxCalls == 3
\* translatable units (header names plus cells) of a parsed table
MaxTableUnits == 4
\* translatable units of a parsed workbook, over all its sheets
MaxBookUnits == 2
\* sheets of a parsed workbook
MaxSheets == 2

---------------------------------------------------------------------------
\* Values and texts.

None == [t |-> "none", s |-> <<>>]
NaN == [t |-> "nan", s |-> <<>>]
Str(x) == [t |-> "str", s |-> x]

\* str(text): None -> 'None', nan -> 'nan', a str -> itself.
to_text(v) ==
    CASE v.t = "none" -> <<"N", "o", "n", "e">>
      [] v.t = "nan" -> <<"n", "a", "n">>
      [] OTHER -> v.s

\* The characters str.strip() removes: the 29 code points for which
\* str.isspace() holds.  A character without a TLA+ escape is written by
\* its code point.
Whitespace ==
    {" ", "\t", "\n", "\r", "\f",
     "U+0009", "U+000A", "U+000B", "U+000C", "U+000D",
     "U+001C", "U+001D", "U+001E", "U+001F", "U+0020", "U+0085", "U+00A0",
     "U+1680", "U+2000", "U+2001", "U+2002", "U+2003", "U+2004", "U+2005",
     "U+2006", "U+2007", "U+2008", "U+2009", "U+200A", "U+2028", "U+2029",
     "U+202F", "U+205F", "U+3000"}

IsSpace(c) == c \in Whitespace

RECURSIVE lstrip(_)
lstrip(x) == IF x # <<>> /\ IsSpace(Head(x)) THEN lstrip(Tail(x)) ELSE x

RECURSIVE rstrip(_)
rstrip(x) ==
    IF x # <<>> /\ IsSpace(x[Len(x)]) THEN rstrip(SubSeq(x, 1, Len(x) - 1)) ELSE x

StripRightOnly(x) == rstrip(x)
\* str.strip()
strip(x) == rstrip(lstrip(x))

KeyUntrimmed(v) == to_text(v)
\* The cache key and the text sent to the provider: s = str(text).strip().
KeyOf(v) == strip(to_text(v))

NoneOnlyBlank(v) == v = None
\* The guard of line 18: text is None or str(text).strip() == "".
IsBlank(v) == v = None \/ strip(to_text(v)) = <<>>

\* The attempt budget: for _ in range(3).
MaxAttempts == 3

\* The language pairs a direct caller builds translators for.
Pairs == {"en>zh-CN", "en>fr"}

\* The pair main() builds its translator for: the defaults of the two
\* text inputs (lines 103, 105).
FilePairs == {"en>zh-CN"}

\* Characters by code point.  A printable ASCII character is written as
\* itself (the grave accent apart, which a string cannot hold), any other
\* character by its code point, U+ and at least four hexadecimal digits.
HexDigits ==
    <<"0", "1", "2", "3", "4", "5", "6", "7", "8", "9", "A", "B", "C", "D", "E", "F">>

RECURSIVE HexOf(_)
HexOf(n) ==
    IF n < 16 THEN HexDigits[n + 1]
    ELSE HexOf(n \div 16) \o HexDigits[(n % 16) + 1]

\* The printable ASCII characters, from code point 32 to 126.
Ascii ==
    <<" ", "!", "\"", "#", "$", "%", "&", "'", "(", ")", "*", "+", ",",
      "-", ".", "/", "0", "1", "2", "3", "4", "5", "6", "7", "8", "9", ":",
      ";", "<", "=", ">", "?", "@", "A", "B", "C", "D", "E", "F", "G", "H",
      "I", "J", "K", "L", "M", "N", "O", "P", "Q", "R", "S", "T", "U", "V",
      "W", "X", "Y", "Z", "[", "\\", "]", "^", "_", "U+0060", "a", "b", "c",
      "d", "e", "f", "g", "h", "i", "j", "k", "l", "m", "n", "o", "p", "q",
      "r", "s", "t", "u", "v", "w", "x", "y", "z", "{", "|", "}", "~">>

\* The character of code point n.
Tok(n) ==
    IF n \in 32..126 THEN Ascii[n - 31]
    ELSE "U+" \o (IF n < 16 THEN "000" ELSE IF n < 256 THEN "00"
                  ELSE IF n < 4096 THEN "0" ELSE "") \o HexOf(n)

\* The surrogate code points U+D800..U+DFFF: in a str each of them stands
\* alone, and str.encode("utf-8") rejects it.
Surrogates == {Tok(n) : n \in 55296..57343}

\* What the provider may return for a text: any str, here an ordinary one
\* and one holding a lone surrogate, which str.encode("utf-8") rejects.
Outs == {<<"x">>, <<"U+D800">>}

\* Whether text.encode("utf-8") succeeds.
Encodable(x) == \A i \in 1..Len(x) : x[i] \notin Surrogates

\* The values a direct caller passes to translate_text_string.
UnitValues ==
    {None, NaN, Str(<<>>), Str(<<" ">>), Str(<<"a">>), Str(<<" ", "a">>),
     Str(<<"a", " ">>), Str(<<"b">>), Str(<<"\r">>), Str(<<"a", "U+00A0">>)}

---------------------------------------------------------------------------
\* translate_text_string.

\* No call has been made yet.  Beside the locals (text, s, the attempts i
\* made so far, the value returned) a frame keeps what the call did: the
\* provider invocations n, the texts sent, the events in order, the cache
\* at entry (pre), whether a translation of s had been obtained before
\* (had), and the value, key, invocations, failed attempts and result of the call
\* just before it when that call had the same key (prev).
NoPrev == [text |-> None, s |-> <<>>, n |-> 0, i |-> 0, ret |-> None]
IdleFrame ==
    [st |-> "idle", text |-> None, p |-> "", s |-> <<>>, i |-> 0, n |-> 0,
     ev |-> <<>>, sent |-> {}, ret |-> None, pre |-> <<>>, had |-> FALSE,
     prev |-> NoPrev]

NoHit(c, s) == FALSE
\* The guard of line 22: s in cache.
CacheHit(c, s) == s \in DOMAIN c

StoreFresh(c, s, zh) == [k \in {s} |-> zh]
\* cache[s] = zh
Store(c, s, zh) == [k \in DOMAIN c \cup {s} |-> IF k = s THEN zh ELSE c[k]]

HitEventsPaced == <<"hit", "pace", "return">>
\* What a call does on a cache hit: line 23 returns at once.
HitEvents == <<"hit", "return">>

\* Lines 18-23: the frame after the blank check and the cache lookup.
Enter(text, p) ==
    LET base == [IdleFrame EXCEPT !.text = text, !.p = p, !.pre = cache,
                                  !.had = (~IsBlank(text) /\ KeyOf(text) \in DOMAIN first),
                                  !.prev = IF ~IsBlank(text) /\ tu.s = KeyOf(text)
                                           THEN [text |-> tu.text, s |-> tu.s, n |-> tu.n, i |-> tu.i,
                                                 ret |-> tu.ret]
                                           ELSE NoPrev]
    IN
    IF IsBlank(text)
    THEN [base EXCEPT !.st = "ret", !.ret = text, !.ev = <<"blank", "return">>]
    ELSE LET s == KeyOf(text) IN
         IF CacheHit(cache, s)
         THEN [base EXCEPT !.st = "ret", !.s = s, !.ret = Str(cache[s]),
                           !.ev = HitEvents]
         ELSE [base EXCEPT !.st = "loop", !.s = s]

---------------------------------------------------------------------------
\* Parsed documents.

\* Column names pandas can hand over: all distinct (read_csv mangles
\* duplicates), never missing.
HeaderValues == {Str(<<"a">>), Str(<<" ", "a">>), Str(<<"b">>)}

\* Cell values: a missing cell is NaN; text cells keep their whitespace.
CellValues == {NaN, Str(<<" ">>), Str(<<" ", "a">>)}

HeaderRows(m) ==
    {h \in [1..m -> HeaderValues] : \A a, b \in 1..m : a # b => h[a] # h[b]}

\* The DataFrames of at most u units: column names and data rows.  A frame
\* without columns (an empty sheet) has no rows.
Frames(mmin, u) ==
    UNION {{[cols |-> h, rows |-> r] :
                h \in HeaderRows(sh[1]),
                r \in [1..sh[2] -> [1..sh[1] -> CellValues]]} :
           sh \in {x \in (mmin..u) \X (0..u) :
                      x[1] * (1 + x[2]) <= u /\ (x[1] = 0 => x[2] = 0)}}

NCols(df) == Len(df.cols)
NRows(df) == Len(df.rows)
\* header names plus cells
Units(df) == NCols(df) * (1 + NRows(df))

\* pd.read_csv: at least one column.
Tables == Frames(1, MaxTableUnits)

SheetNames == {<<"S", "2">>, <<"S", "1">>, <<"S", "3">>}

RECURSIVE TotalUnits(_)
TotalUnits(sheets) ==
    IF sheets = <<>> THEN 0
    ELSE Units(Head(sheets).df) + TotalUnits(Tail(sheets))

RECURSIVE FrameSeqs(_, _)
\* The sequences of k frames with at most u units in all.
FrameSeqs(k, u) ==
    IF k = 0 THEN {<<>>}
    ELSE UNION {{<<f>> \o rest : rest \in FrameSeqs(k - 1, u - Units(f))} :
                f \in Frames(0, u)}

\* pd.read_excel(sheet_name=None): the sheets in workbook order, names
\* distinct; a sheet may be empty.
Workbooks ==
    UNION {{[x \in 1..k |-> [name |-> ns[x], df |-> fs[x]]] :
                ns \in {n \in [1..k -> SheetNames] :
                           \A a, b \in 1..k : a # b => n[a] # n[b]},
                fs \in FrameSeqs(k, MaxBookUnits)} :
           k \in 1..MaxSheets}

\* File names offered by the uploader.
FileNames ==
    {<<"r", ".", "c", "s", "v">>, <<"n", ".", "T", "X", "T">>,
     <<"d", ".", "x", "l", "s">>, <<"a", ".", "b", ".", "x", "l", "s", "x">>,
     <<"i", ".", "p", "n", "g">>, <<"c", "s", "v">>, <<"U+0130", ".", "C", "s", "V">>,
     <<"U+00C9", "U+03A3", ".", "T", "x", "t">>,
     <<"r", ".", "c", "s", "v", ".", "b">>}

\* Decoded contents of a text file.
TxtContents ==
    {<<>>, <<" ">>, <<"a">>, <<"a", " ">>, <<"b">>, <<"a", "\n", "b">>, <<"\r", "\n">>}

\* The characters a single-character str.lower() changes, as runs
\* <<first, last, step, offset>> of code points: each code point of the run
\* is lowered to itself plus offset (Unicode 14, 1432 characters; U+0130,
\* lowered to two characters, is apart).
LowerRuns ==
    <<<<65, 90, 1, 32>>, <<192, 214, 1, 32>>, <<216, 222, 1, 32>>,
      <<256, 302, 2, 1>>, <<306, 310, 2, 1>>, <<313, 327, 2, 1>>,
      <<330, 374, 2, 1>>, <<376, 376, 1, -121>>, <<377, 381, 2, 1>>,
      <<385, 385, 1, 210>>, <<386, 388, 2, 1>>, <<390, 390, 1, 206>>,
      <<391, 391, 1, 1>>, <<393, 394, 1, 205>>, <<395, 395, 1, 1>>,
      <<398, 398, 1, 79>>, <<399, 399, 1, 202>>, <<400, 400, 1, 203>>,
      <<401, 401, 1, 1>>, <<403, 403, 1, 205>>, <<404, 404, 1, 207>>,
      <<406, 406, 1, 211>>, <<407, 407, 1, 209>>, <<408, 408, 1, 1>>,
      <<412, 412, 1, 211>>, <<413, 413, 1, 213>>, <<415, 415, 1, 214>>,
      <<416, 420, 2, 1>>, <<422, 422, 1, 218>>, <<423, 423, 1, 1>>,
      <<425, 425, 1, 218>>, <<428, 428, 1, 1>>, <<430, 430, 1, 218>>,
      <<431, 431, 1, 1>>, <<433, 434, 1, 217>>, <<435, 437, 2, 1>>,
      <<439, 439, 1, 219>>, <<440, 440, 1, 1>>, <<444, 444, 1, 1>>,
      <<452, 452, 1, 2>>, <<453, 453, 1, 1>>, <<455, 455, 1, 2>>,
      <<456, 456, 1, 1>>, <<458, 458, 1, 2>>, <<459, 475, 2, 1>>,
      <<478, 494, 2, 1>>, <<497, 497, 1, 2>>, <<498, 500, 2, 1>>,
      <<502, 502, 1, -97>>, <<503, 503, 1, -56>>, <<504, 542, 2, 1>>,
      <<544, 544, 1, -130>>, <<546, 562, 2, 1>>, <<570, 570, 1, 10795>>,
      <<571, 571, 1, 1>>, <<573, 573, 1, -163>>, <<574, 574, 1, 10792>>,
      <<577, 577, 1, 1>>, <<579, 579, 1, -195>>, <<580, 580, 1, 69>>,
      <<581, 581, 1, 71>>, <<582, 590, 2, 1>>, <<880, 882, 2, 1>>,
      <<886, 886, 1, 1>>, <<895, 895, 1, 116>>, <<902, 902, 1, 38>>,
      <<904, 906, 1, 37>>, <<908, 908, 1, 64>>, <<910, 911, 1, 63>>,
      <<913, 929, 1, 32>>, <<931, 939, 1, 32>>, <<975, 975, 1, 8>>,
      <<984, 1006, 2, 1>>, <<1012, 1012, 1, -60>>, <<1015, 1015, 1, 1>>,
      <<1017, 1017, 1, -7>>, <<1018, 1018, 1, 1>>, <<1021, 1023, 1, -130>>,
      <<1024, 1039, 1, 80>>, <<1040, 1071, 1, 32>>, <<1120, 1152, 2, 1>>,
      <<1162, 1214, 2, 1>>, <<1216, 1216, 1, 15>>, <<1217, 1229, 2, 1>>,
      <<1232, 1326, 2, 1>>, <<1329, 1366, 1, 48>>, <<4256, 4293, 1, 7264>>,
      <<4295, 4295, 1, 7264>>, <<4301, 4301, 1, 7264>>,
      <<5024, 5103, 1, 38864>>, <<5104, 5109, 1, 8>>,
      <<7312, 7354, 1, -3008>>, <<7357, 7359, 1, -3008>>,
      <<7680, 7828, 2, 1>>, <<7838, 7838, 1, -7615>>, <<7840, 7934, 2, 1>>,
      <<7944, 7951, 1, -8>>, <<7960, 7965, 1, -8>>, <<7976, 7983, 1, -8>>,
      <<7992, 7999, 1, -8>>, <<8008, 8013, 1, -8>>, <<8025, 8031, 2, -8>>,
      <<8040, 8047, 1, -8>>, <<8072, 8079, 1, -8>>, <<8088, 8095, 1, -8>>,
      <<8104, 8111, 1, -8>>, <<8120, 8121, 1, -8>>, <<8122, 8123, 1, -74>>,
      <<8124, 8124, 1, -9>>, <<8136, 8139, 1, -86>>, <<8140, 8140, 1, -9>>,
      <<8152, 8153, 1, -8>>, <<8154, 8155, 1, -100>>, <<8168, 8169, 1, -8>>,
      <<8170, 8171, 1, -112>>, <<8172, 8172, 1, -7>>,
      <<8184, 8185, 1, -128>>, <<8186, 8187, 1, -126>>,
      <<8188, 8188, 1, -9>>, <<8486, 8486, 1, -7517>>,
      <<8490, 8490, 1, -8383>>, <<8491, 8491, 1, -8262>>,
      <<8498, 8498, 1, 28>>, <<8544, 8559, 1, 16>>, <<8579, 8579, 1, 1>>,
      <<9398, 9423, 1, 26>>, <<11264, 11311, 1, 48>>, <<11360, 11360, 1, 1>>,
      <<11362, 11362, 1, -10743>>, <<11363, 11363, 1, -3814>>,
      <<11364, 11364, 1, -10727>>, <<11367, 11371, 2, 1>>,
      <<11373, 11373, 1, -10780>>, <<11374, 11374, 1, -10749>>,
      <<11375, 11375, 1, -10783>>, <<11376, 11376, 1, -10782>>,
      <<11378, 11378, 1, 1>>, <<11381, 11381, 1, 1>>,
      <<11390, 11391, 1, -10815>>, <<11392, 11490, 2, 1>>,
      <<11499, 11501, 2, 1>>, <<11506, 11506, 1, 1>>, <<42560, 42604, 2, 1>>,
      <<42624, 42650, 2, 1>>, <<42786, 42798, 2, 1>>, <<42802, 42862, 2, 1>>,
      <<42873, 42875, 2, 1>>, <<42877, 42877, 1, -35332>>,
      <<42878, 42886, 2, 1>>, <<42891, 42891, 1, 1>>,
      <<42893, 42893, 1, -42280>>, <<42896, 42898, 2, 1>>,
      <<42902, 42920, 2, 1>>, <<42922, 42922, 1, -42308>>,
      <<42923, 42923, 1, -42319>>, <<42924, 42924, 1, -42315>>,
      <<42925, 42925, 1, -42305>>, <<42926, 42926, 1, -42308>>,
      <<42928, 42928, 1, -42258>>, <<42929, 42929, 1, -42282>>,
      <<42930, 42930, 1, -42261>>, <<42931, 42931, 1, 928>>,
      <<42932, 42946, 2, 1>>, <<42948, 42948, 1, -48>>,
      <<42949, 42949, 1, -42307>>, <<42950, 42950, 1, -35384>>,
      <<42951, 42953, 2, 1>>, <<42960, 42960, 1, 1>>, <<42966, 42968, 2, 1>>,
      <<42997, 42997, 1, 1>>, <<65313, 65338, 1, 32>>,
      <<66560, 66599, 1, 40>>, <<66736, 66771, 1, 40>>,
      <<66928, 66938, 1, 39>>, <<66940, 66954, 1, 39>>,
      <<66956, 66962, 1, 39>>, <<66964, 66965, 1, 39>>,
      <<68736, 68786, 1, 64>>, <<71840, 71871, 1, 32>>,
      <<93760, 93791, 1, 32>>, <<125184, 125217, 1, 34>>>>

\* The cased characters that are not case-ignorable, as ranges of code
\* points.
CasedRuns ==
    <<<<65, 90>>, <<97, 122>>, <<170, 170>>, <<181, 181>>, <<186, 186>>,
      <<192, 214>>, <<216, 246>>, <<248, 442>>, <<444, 447>>, <<452, 659>>,
      <<661, 687>>, <<880, 883>>, <<886, 887>>, <<891, 893>>, <<895, 895>>,
      <<902, 902>>, <<904, 906>>, <<908, 908>>, <<910, 929>>, <<931, 1013>>,
      <<1015, 1153>>, <<1162, 1327>>, <<1329, 1366>>, <<1376, 1416>>,
      <<4256, 4293>>, <<4295, 4295>>, <<4301, 4301>>, <<4304, 4346>>,
      <<4349, 4351>>, <<5024, 5109>>, <<5112, 5117>>, <<7296, 7304>>,
      <<7312, 7354>>, <<7357, 7359>>, <<7424, 7467>>, <<7531, 7543>>,
      <<7545, 7578>>, <<7680, 7957>>, <<7960, 7965>>, <<7968, 8005>>,
      <<8008, 8013>>, <<8016, 8023>>, <<8025, 8025>>, <<8027, 8027>>,
      <<8029, 8029>>, <<8031, 8061>>, <<8064, 8116>>, <<8118, 8124>>,
      <<8126, 8126>>, <<8130, 8132>>, <<8134, 8140>>, <<8144, 8147>>,
      <<8150, 8155>>, <<8160, 8172>>, <<8178, 8180>>, <<8182, 8188>>,
      <<8450, 8450>>, <<8455, 8455>>, <<8458, 8467>>, <<8469, 8469>>,
      <<8473, 8477>>, <<8484, 8484>>, <<8486, 8486>>, <<8488, 8488>>,
      <<8490, 8493>>, <<8495, 8500>>, <<8505, 8505>>, <<8508, 8511>>,
      <<8517, 8521>>, <<8526, 8526>>, <<8544, 8575>>, <<8579, 8580>>,
      <<9398, 9449>>, <<11264, 11387>>, <<11390, 11492>>, <<11499, 11502>>,
      <<11506, 11507>>, <<11520, 11557>>, <<11559, 11559>>, <<11565, 11565>>,
      <<42560, 42605>>, <<42624, 42651>>, <<42786, 42863>>, <<42865, 42887>>,
      <<42891, 42894>>, <<42896, 42954>>, <<42960, 42961>>, <<42963, 42963>>,
      <<42965, 42969>>, <<42997, 42998>>, <<43002, 43002>>, <<43824, 43866>>,
      <<43872, 43880>>, <<43888, 43967>>, <<64256, 64262>>, <<64275, 64279>>,
      <<65313, 65338>>, <<65345, 65370>>, <<66560, 66639>>, <<66736, 66771>>,
      <<66776, 66811>>, <<66928, 66938>>, <<66940, 66954>>, <<66956, 66962>>,
      <<66964, 66965>>, <<66967, 66977>>, <<66979, 66993>>, <<66995, 67001>>,
      <<67003, 67004>>, <<68736, 68786>>, <<68800, 68850>>, <<71840, 71903>>,
      <<93760, 93823>>, <<119808, 119892>>, <<119894, 119964>>,
      <<119966, 119967>>, <<119970, 119970>>, <<119973, 119974>>,
      <<119977, 119980>>, <<119982, 119993>>, <<119995, 119995>>,
      <<119997, 120003>>, <<120005, 120069>>, <<120071, 120074>>,
      <<120077, 120084>>, <<120086, 120092>>, <<120094, 120121>>,
      <<120123, 120126>>, <<120128, 120132>>, <<120134, 120134>>,
      <<120138, 120144>>, <<120146, 120485>>, <<120488, 120512>>,
      <<120514, 120538>>, <<120540, 120570>>, <<120572, 120596>>,
      <<120598, 120628>>, <<120630, 120654>>, <<120656, 120686>>,
      <<120688, 120712>>, <<120714, 120744>>, <<120746, 120770>>,
      <<120772, 120779>>, <<122624, 122633>>, <<122635, 122654>>,
      <<125184, 125251>>, <<127280, 127305>>, <<127312, 127337>>,
      <<127344, 127369>>>>

\* The case-ignorable characters, as ranges of code points.
IgnorableRuns ==
    <<<<39, 39>>, <<46, 46>>, <<58, 58>>, <<94, 94>>, <<96, 96>>,
      <<168, 168>>, <<173, 173>>, <<175, 175>>, <<180, 180>>, <<183, 184>>,
      <<688, 879>>, <<884, 885>>, <<890, 890>>, <<900, 901>>, <<903, 903>>,
      <<1155, 1161>>, <<1369, 1369>>, <<1375, 1375>>, <<1425, 1469>>,
      <<1471, 1471>>, <<1473, 1474>>, <<1476, 1477>>, <<1479, 1479>>,
      <<1524, 1524>>, <<1536, 1541>>, <<1552, 1562>>, <<1564, 1564>>,
      <<1600, 1600>>, <<1611, 1631>>, <<1648, 1648>>, <<1750, 1757>>,
      <<1759, 1768>>, <<1770, 1773>>, <<1807, 1807>>, <<1809, 1809>>,
      <<1840, 1866>>, <<1958, 1968>>, <<2027, 2037>>, <<2042, 2042>>,
      <<2045, 2045>>, <<2070, 2093>>, <<2137, 2139>>, <<2184, 2184>>,
      <<2192, 2193>>, <<2200, 2207>>, <<2249, 2306>>, <<2362, 2362>>,
      <<2364, 2364>>, <<2369, 2376>>, <<2381, 2381>>, <<2385, 2391>>,
      <<2402, 2403>>, <<2417, 2417>>, <<2433, 2433>>, <<2492, 2492>>,
      <<2497, 2500>>, <<2509, 2509>>, <<2530, 2531>>, <<2558, 2558>>,
      <<2561, 2562>>, <<2620, 2620>>, <<2625, 2626>>, <<2631, 2632>>,
      <<2635, 2637>>, <<2641, 2641>>, <<2672, 2673>>, <<2677, 2677>>,
      <<2689, 2690>>, <<2748, 2748>>, <<2753, 2757>>, <<2759, 2760>>,
      <<2765, 2765>>, <<2786, 2787>>, <<2810, 2815>>, <<2817, 2817>>,
      <<2876, 2876>>, <<2879, 2879>>, <<2881, 2884>>, <<2893, 2893>>,
      <<2901, 2902>>, <<2914, 2915>>, <<2946, 2946>>, <<3008, 3008>>,
      <<3021, 3021>>, <<3072, 3072>>, <<3076, 3076>>, <<3132, 3132>>,
      <<3134, 3136>>, <<3142, 3144>>, <<3146, 3149>>, <<3157, 3158>>,
      <<3170, 3171>>, <<3201, 3201>>, <<3260, 3260>>, <<3263, 3263>>,
      <<3270, 3270>>, <<3276, 3277>>, <<3298, 3299>>, <<3328, 3329>>,
      <<3387, 3388>>, <<3393, 3396>>, <<3405, 3405>>, <<3426, 3427>>,
      <<3457, 3457>>, <<3530, 3530>>, <<3538, 3540>>, <<3542, 3542>>,
      <<3633, 3633>>, <<3636, 3642>>, <<3654, 3662>>, <<3761, 3761>>,
      <<3764, 3772>>, <<3782, 3782>>, <<3784, 3789>>, <<3864, 3865>>,
      <<3893, 3893>>, <<3895, 3895>>, <<3897, 3897>>, <<3953, 3966>>,
      <<3968, 3972>>, <<3974, 3975>>, <<3981, 3991>>, <<3993, 4028>>,
      <<4038, 4038>>, <<4141, 4144>>, <<4146, 4151>>, <<4153, 4154>>,
      <<4157, 4158>>, <<4184, 4185>>, <<4190, 4192>>, <<4209, 4212>>,
      <<4226, 4226>>, <<4229, 4230>>, <<4237, 4237>>, <<4253, 4253>>,
      <<4348, 4348>>, <<4957, 4959>>, <<5906, 5908>>, <<5938, 5939>>,
      <<5970, 5971>>, <<6002, 6003>>, <<6068, 6069>>, <<6071, 6077>>,
      <<6086, 6086>>, <<6089, 6099>>, <<6103, 6103>>, <<6109, 6109>>,
      <<6155, 6159>>, <<6211, 6211>>, <<6277, 6278>>, <<6313, 6313>>,
      <<6432, 6434>>, <<6439, 6440>>, <<6450, 6450>>, <<6457, 6459>>,
      <<6679, 6680>>, <<6683, 6683>>, <<6742, 6742>>, <<6744, 6750>>,
      <<6752, 6752>>, <<6754, 6754>>, <<6757, 6764>>, <<6771, 6780>>,
      <<6783, 6783>>, <<6823, 6823>>, <<6832, 6862>>, <<6912, 6915>>,
      <<6964, 6964>>, <<6966, 6970>>, <<6972, 6972>>, <<6978, 6978>>,
      <<7019, 7027>>, <<7040, 7041>>, <<7074, 7077>>, <<7080, 7081>>,
      <<7083, 7085>>, <<7142, 7142>>, <<7144, 7145>>, <<7149, 7149>>,
      <<7151, 7153>>, <<7212, 7219>>, <<7222, 7223>>, <<7288, 7293>>,
      <<7376, 7378>>, <<7380, 7392>>, <<7394, 7400>>, <<7405, 7405>>,
      <<7412, 7412>>, <<7416, 7417>>, <<7468, 7530>>, <<7544, 7544>>,
      <<7579, 7679>>, <<8125, 8125>>, <<8127, 8129>>, <<8141, 8143>>,
      <<8157, 8159>>, <<8173, 8175>>, <<8189, 8190>>, <<8203, 8207>>,
      <<8216, 8217>>, <<8228, 8228>>, <<8231, 8231>>, <<8234, 8238>>,
      <<8288, 8292>>, <<8294, 8303>>, <<8305, 8305>>, <<8319, 8319>>,
      <<8336, 8348>>, <<8400, 8432>>, <<11388, 11389>>, <<11503, 11505>>,
      <<11631, 11631>>, <<11647, 11647>>, <<11744, 11775>>, <<11823, 11823>>,
      <<12293, 12293>>, <<12330, 12333>>, <<12337, 12341>>, <<12347, 12347>>,
      <<12441, 12446>>, <<12540, 12542>>, <<40981, 40981>>, <<42232, 42237>>,
      <<42508, 42508>>, <<42607, 42610>>, <<42612, 42621>>, <<42623, 42623>>,
      <<42652, 42655>>, <<42736, 42737>>, <<42752, 42785>>, <<42864, 42864>>,
      <<42888, 42890>>, <<42994, 42996>>, <<43000, 43001>>, <<43010, 43010>>,
      <<43014, 43014>>, <<43019, 43019>>, <<43045, 43046>>, <<43052, 43052>>,
      <<43204, 43205>>, <<43232, 43249>>, <<43263, 43263>>, <<43302, 43309>>,
      <<43335, 43345>>, <<43392, 43394>>, <<43443, 43443>>, <<43446, 43449>>,
      <<43452, 43453>>, <<43471, 43471>>, <<43493, 43494>>, <<43561, 43566>>,
      <<43569, 43570>>, <<43573, 43574>>, <<43587, 43587>>, <<43596, 43596>>,
      <<43632, 43632>>, <<43644, 43644>>, <<43696, 43696>>, <<43698, 43700>>,
      <<43703, 43704>>, <<43710, 43711>>, <<43713, 43713>>, <<43741, 43741>>,
      <<43756, 43757>>, <<43763, 43764>>, <<43766, 43766>>, <<43867, 43871>>,
      <<43881, 43883>>, <<44005, 44005>>, <<44008, 44008>>, <<44013, 44013>>,
      <<64286, 64286>>, <<64434, 64450>>, <<65024, 65039>>, <<65043, 65043>>,
      <<65056, 65071>>, <<65106, 65106>>, <<65109, 65109>>, <<65279, 65279>>,
      <<65287, 65287>>, <<65294, 65294>>, <<65306, 65306>>, <<65342, 65342>>,
      <<65344, 65344>>, <<65392, 65392>>, <<65438, 65439>>, <<65507, 65507>>,
      <<65529, 65531>>, <<66045, 66045>>, <<66272, 66272>>, <<66422, 66426>>,
      <<67456, 67461>>, <<67463, 67504>>, <<67506, 67514>>, <<68097, 68099>>,
      <<68101, 68102>>, <<68108, 68111>>, <<68152, 68154>>, <<68159, 68159>>,
      <<68325, 68326>>, <<68900, 68903>>, <<69291, 69292>>, <<69446, 69456>>,
      <<69506, 69509>>, <<69633, 69633>>, <<69688, 69702>>, <<69744, 69744>>,
      <<69747, 69748>>, <<69759, 69761>>, <<69811, 69814>>, <<69817, 69818>>,
      <<69821, 69821>>, <<69826, 69826>>, <<69837, 69837>>, <<69888, 69890>>,
      <<69927, 69931>>, <<69933, 69940>>, <<70003, 70003>>, <<70016, 70017>>,
      <<70070, 70078>>, <<70089, 70092>>, <<70095, 70095>>, <<70191, 70193>>,
      <<70196, 70196>>, <<70198, 70199>>, <<70206, 70206>>, <<70367, 70367>>,
      <<70371, 70378>>, <<70400, 70401>>, <<70459, 70460>>, <<70464, 70464>>,
      <<70502, 70508>>, <<70512, 70516>>, <<70712, 70719>>, <<70722, 70724>>,
      <<70726, 70726>>, <<70750, 70750>>, <<70835, 70840>>, <<70842, 70842>>,
      <<70847, 70848>>, <<70850, 70851>>, <<71090, 71093>>, <<71100, 71101>>,
      <<71103, 71104>>, <<71132, 71133>>, <<71219, 71226>>, <<71229, 71229>>,
      <<71231, 71232>>, <<71339, 71339>>, <<71341, 71341>>, <<71344, 71349>>,
      <<71351, 71351>>, <<71453, 71455>>, <<71458, 71461>>, <<71463, 71467>>,
      <<71727, 71735>>, <<71737, 71738>>, <<71995, 71996>>, <<71998, 71998>>,
      <<72003, 72003>>, <<72148, 72151>>, <<72154, 72155>>, <<72160, 72160>>,
      <<72193, 72202>>, <<72243, 72248>>, <<72251, 72254>>, <<72263, 72263>>,
      <<72273, 72278>>, <<72281, 72283>>, <<72330, 72342>>, <<72344, 72345>>,
      <<72752, 72758>>, <<72760, 72765>>, <<72767, 72767>>, <<72850, 72871>>,
      <<72874, 72880>>, <<72882, 72883>>, <<72885, 72886>>, <<73009, 73014>>,
      <<73018, 73018>>, <<73020, 73021>>, <<73023, 73029>>, <<73031, 73031>>,
      <<73104, 73105>>, <<73109, 73109>>, <<73111, 73111>>, <<73459, 73460>>,
      <<78896, 78904>>, <<92912, 92916>>, <<92976, 92982>>, <<92992, 92995>>,
      <<94031, 94031>>, <<94095, 94111>>, <<94176, 94177>>, <<94179, 94180>>,
      <<110576, 110579>>, <<110581, 110587>>, <<110589, 110590>>,
      <<113821, 113822>>, <<113824, 113827>>, <<118528, 118573>>,
      <<118576, 118598>>, <<119143, 119145>>, <<119155, 119170>>,
      <<119173, 119179>>, <<119210, 119213>>, <<119362, 119364>>,
      <<121344, 121398>>, <<121403, 121452>>, <<121461, 121461>>,
      <<121476, 121476>>, <<121499, 121503>>, <<121505, 121519>>,
      <<122880, 122886>>, <<122888, 122904>>, <<122907, 122913>>,
      <<122915, 122916>>, <<122918, 122922>>, <<123184, 123197>>,
      <<123566, 123566>>, <<123628, 123631>>, <<125136, 125142>>,
      <<125252, 125259>>, <<127995, 127999>>, <<917505, 917505>>,
      <<917536, 917631>>, <<917760, 917999>>>>

\* The code points of a run of LowerRuns.
RunPoints(r) == {n \in r[1]..r[2] : (n - r[1]) % r[3] = 0}

LowerPairs ==
    UNION {{<<Tok(n), Tok(n + r[4])>> : n \in RunPoints(r)} :
           r \in {LowerRuns[k] : k \in DOMAIN LowerRuns}}

\* character -> the one character it is lowered to
LowerMap ==
    [c \in {p[1] : p \in LowerPairs} |-> (CHOOSE p \in LowerPairs : p[1] = c)[2]]

Cased ==
    UNION {{Tok(n) : n \in r[1]..r[2]} : r \in {CasedRuns[k] : k \in DOMAIN CasedRuns}}

CaseIgnorable ==
    UNION {{Tok(n) : n \in r[1]..r[2]} :
           r \in {IgnorableRuns[k] : k \in DOMAIN IgnorableRuns}}

\* c.lower() for one character, a text: U+0130 gives the two characters
\* i, U+0307; a character of LowerMap gives its image; any other gives
\* itself.
LowerChar(c) ==
    IF c = "U+0130" THEN <<"i", "U+0307">>
    ELSE IF c \in DOMAIN LowerMap THEN <<LowerMap[c]>>
    ELSE <<c>>

\* Whether the capital sigma at x[i] ends a word: the nearest character
\* before it that is not case-ignorable is cased, and the nearest such
\* character after it, if any, is not.
FinalSigma(x, i) ==
    LET before == {j \in 1..(i - 1) : x[j] \notin CaseIgnorable}
        after == {j \in (i + 1)..Len(x) : x[j] \notin CaseIgnorable}
    IN /\ before # {}
       /\ x[CHOOSE j \in before : \A k \in before : j >= k] \in Cased
       /\ \/ after = {}
          \/ x[CHOOSE j \in after : \A k \in after : j <= k] \notin Cased

RECURSIVE LowerFrom(_, _)
\* x[i..] lowered, within x
LowerFrom(x, i) ==
    IF i > Len(x) THEN <<>>
    ELSE (IF x[i] = "U+03A3"
          THEN (IF FinalSigma(x, i) THEN <<"U+03C2">> ELSE <<"U+03C3">>)
          ELSE LowerChar(x[i])) \o LowerFrom(x, i + 1)

\* str.lower()
lower(x) == LowerFrom(x, 1)

\* str.endswith(suffix)
endswith(x, suffix) ==
    /\ Len(x) >= Len(suffix)
    /\ SubSeq(x, Len(x) - Len(suffix) + 1, Len(x)) = suffix

DotCsv == <<".", "c", "s", "v">>
DotTxt == <<".", "t", "x", "t">>
DotXlsx == <<".", "x", "l", "s", "x">>
DotXls == <<".", "x", "l", "s">>

KindOfElseTxt(name) ==
    LET l == lower(name) IN
    CASE endswith(l, DotCsv) -> "csv"
      [] endswith(l, DotXlsx) \/ endswith(l, DotXls) -> "xlsx"
      [] OTHER -> "txt"
\* The branch main() takes for a file name (lines 120-167).
KindOf(name) ==
    LET l == lower(name) IN
    CASE endswith(l, DotCsv) -> "csv"
      [] endswith(l, DotTxt) -> "txt"
      [] endswith(l, DotXlsx) \/ endswith(l, DotXls) -> "xlsx"
      [] OTHER -> "other"

RECURSIVE LastDot(_)
\* index of the last "." of x, 0 when there is none
LastDot(x) ==
    IF x = <<>> THEN 0
    ELSE IF x[Len(x)] = "." THEN Len(x)
    ELSE LastDot(SubSeq(x, 1, Len(x) - 1))

RECURSIVE FirstDot(_)
\* index of the first "." of x, 0 when there is none
FirstDot(x) ==
    IF x = <<>> THEN 0
    ELSE IF Head(x) = "." THEN 1
    ELSE LET d == FirstDot(Tail(x)) IN IF d = 0 THEN 0 ELSE d + 1

StemToFirstDot(name) ==
    IF FirstDot(name) = 0 THEN name ELSE SubSeq(name, 1, FirstDot(name) - 1)
\* filename.rsplit(".", 1)[0]
Stem(name) ==
    IF LastDot(name) = 0 THEN name ELSE SubSeq(name, 1, LastDot(name) - 1)

Translated == <<"_", "t", "r", "a", "n", "s", "l", "a", "t", "e", "d">>

\* out_name of lines 125, 140, 155
OutName(name, ext) == Stem(name) \o Translated \o ext

---------------------------------------------------------------------------
\* Operations.

EmptyFrame == [cols |-> <<>>, rows |-> <<>>]
NoPos == [ph |-> "none", j |-> 0, i |-> 0]
NoDownload == [file_name |-> <<>>, fmt |-> "none", text |-> None, sheets |-> <<>>,
               mime |-> "none"]
NoUi == [msgs |-> <<>>, why |-> "", dl |-> NoDownload]

\* An operation: its kind, file name and language pair; for a direct call
\* or a text file the text passed and returned; for a table or workbook
\* the parsed sheets (doc), the sheet being walked (si), its frame so far
\* (df), the position of the next unit (pos) and translated_sheets so far
\* (sheets); calls counts its translate_text_string calls and rets the
\* provider calls made for it that returned, failed tells whether one of
\* them raised; pre is the cache when it started.
IdleOp ==
    [kind |-> "none", name |-> <<>>, p |-> "", st |-> "idle",
     text |-> None, out |-> None,
     doc |-> <<>>, si |-> 0, df |-> EmptyFrame, pos |-> NoPos, sheets |-> <<>>,
     calls |-> 0, rets |-> 0, failed |-> FALSE, pre |-> <<>>]

DictSetFront(d, key, value) == <<[name |-> key, df |-> value]>> \o d
\* Python dict assignment d[key] = value on a dict kept as a list of
\* entries in insertion order.
DictSet(d, key, value) ==
    IF \E x \in 1..Len(d) : d[x].name = key
    THEN [x \in 1..Len(d) |->
            IF d[x].name = key THEN [name |-> key, df |-> value] ELSE d[x]]
    ELSE Append(d, [name |-> key, df |-> value])

RECURSIVE Settle(_)
\* The sheet loop of lines 71-78 up to the next translate call: a sheet
\* without columns is stored as it is; past the last sheet the walk is over.
Settle(o) ==
    IF o.si > Len(o.doc) THEN [o EXCEPT !.st = "walked", !.pos = NoPos, !.df = EmptyFrame]
    ELSE LET sh == o.doc[o.si] IN
         IF NCols(sh.df) = 0
         THEN Settle([o EXCEPT !.sheets = DictSet(@, sh.name, sh.df), !.si = @ + 1])
         ELSE [o EXCEPT !.df = sh.df, !.pos = [ph |-> "hdr", j |-> 1, i |-> 0]]

RECURSIVE FirstLine(_)
\* a text up to its first line break
FirstLine(x) ==
    IF x = <<>> \/ Head(x) = "\n" THEN <<>> ELSE <<Head(x)>> \o FirstLine(Tail(x))

UnitAtFirstLine(o) ==
    IF o.kind = "unit" THEN o.text
    ELSE IF o.kind = "txt" THEN Str(FirstLine(o.text.s))
    ELSE IF o.pos.ph = "hdr" THEN o.doc[o.si].df.cols[o.pos.j]
    ELSE o.doc[o.si].df.rows[o.pos.i][o.pos.j]
\* The value the walker passes next.
UnitAt(o) ==
    IF o.kind \in {"unit", "txt"} THEN o.text
    ELSE IF o.pos.ph = "hdr" THEN o.doc[o.si].df.cols[o.pos.j]
    ELSE o.doc[o.si].df.rows[o.pos.i][o.pos.j]

PutTransposed(df, pos, v) ==
    IF pos.ph = "hdr" THEN [df EXCEPT !.cols[NCols(df) + 1 - pos.j] = v]
    ELSE [df EXCEPT !.rows[pos.i][NCols(df) + 1 - pos.j] = v]
\* The frame with the result stored where the unit came from
\* (new_cols[j], and the cell (i, j) of the frame df.apply builds).
Put(df, pos, v) ==
    IF pos.ph = "hdr" THEN [df EXCEPT !.cols[pos.j] = v]
    ELSE [df EXCEPT !.rows[pos.i][pos.j] = v]

\* Traversal order within one frame: the headers left to right, then the
\* cells column by column; "end" after the last one.
NextPos(df, pos) ==
    IF pos.ph = "hdr"
    THEN IF pos.j < NCols(df) THEN [pos EXCEPT !.j = @ + 1]
         ELSE IF NRows(df) > 0 THEN [ph |-> "cell", j |-> 1, i |-> 1]
         ELSE [NoPos EXCEPT !.ph = "end"]
    ELSE IF pos.i < NRows(df) THEN [pos EXCEPT !.i = @ + 1]
         ELSE IF pos.j < NCols(df) THEN [ph |-> "cell", j |-> pos.j + 1, i |-> 1]
         ELSE [NoPos EXCEPT !.ph = "end"]

\* The caller's continuation when translate_text_string returns v.
Deliver(o, v) ==
    IF o.kind = "unit" THEN [o EXCEPT !.out = v, !.st = "done"]
    ELSE IF o.kind = "txt" THEN [o EXCEPT !.out = v, !.st = "walked"]
    ELSE LET df == Put(o.df, o.pos, v)
             np == NextPos(df, o.pos)
         IN IF np.ph # "end" THEN [o EXCEPT !.df = df, !.pos = np]
            ELSE Settle([o EXCEPT !.sheets = DictSet(@, o.doc[o.si].name, df),
                                  !.si = @ + 1])


---------------------------------------------------------------------------
\* Actions.

Init ==
    /\ cache = <<>>
    /\ tu = IdleFrame
    /\ op = IdleOp
    /\ ui = NoUi
    /\ log = {}
    /\ first = <<>>
    /\ nops = 0

\* No operation is in progress.
Ready == op.st \in {"idle", "done"}

\* The script has just been started: main() runs once per execution of
\* the module (line 172), with the cache of line 14 still empty.
Fresh == op.st = "idle" /\ nops = 0

NeverExhausted(i) == FALSE
ExhaustedLate(i) == i > MaxAttempts
\* The loop of line 25 is over after MaxAttempts failed attempts.
Exhausted(i) == i >= MaxAttempts

\* Lines 27, 31-32: one more attempt was made and failed; sleep(1).
Failed(f) ==
    [f EXCEPT !.i = @ + 1, !.n = @ + 1, !.sent = @ \cup {f.s},
              !.ev = @ \o <<"attempt", "wait">>]

FallbackUntrimmed(f) == Str(to_text(f.text))
\* Line 34: return s.
Fallback(f) == Str(f.s)

\* The caller o calls translate_text_string(text, translator for p).
StartCall(o, text, p) ==
    LET f == Enter(text, p)
        c == [o EXCEPT !.calls = @ + 1]
    IN
    /\ tu' = f
    /\ op' = IF f.st = "ret" THEN Deliver(c, f.ret) ELSE c
    /\ UNCHANGED <<cache, log, first>>

\* A direct call translate_text_string(v, translator).
UnitCall(v, p) ==
    /\ Ready
    /\ nops < MaxCalls
    /\ nops' = nops + 1
    /\ StartCall([IdleOp EXCEPT !.kind = "unit", !.p = p, !.text = v, !.st = "walking",
                                !.pre = cache],
                 v, p)
    /\ UNCHANGED ui

\* Lines 27-30: translator.translate(s) returns zh.
ProviderReturn(zh) ==
    /\ tu.st = "loop"
    /\ cache' = Store(cache, tu.s, zh)
    /\ tu' = [tu EXCEPT !.st = "ret", !.n = @ + 1, !.sent = @ \cup {tu.s},
                        !.ev = @ \o <<"attempt", "store", "pace", "return">>,
                        !.ret = Str(zh)]
    /\ op' = Deliver([op EXCEPT !.rets = @ + 1], Str(zh))
    /\ log' = log \cup {<<tu.p, tu.s, zh>>}
    /\ first' = IF tu.s \in DOMAIN first THEN first ELSE Store(first, tu.s, zh)
    /\ UNCHANGED <<ui, nops>>

ProviderRaiseCaching ==
    /\ tu.st = "loop"
    /\ LET f == Failed(tu)
       IN IF Exhausted(f.i)
          THEN /\ tu' = [f EXCEPT !.st = "ret", !.ret = Fallback(f),
                                  !.ev = @ \o <<"fallback", "return">>]
               /\ op' = Deliver([op EXCEPT !.failed = TRUE], Fallback(f))
               /\ cache' = Store(cache, f.s, f.s)
          ELSE /\ tu' = f
               /\ op' = [op EXCEPT !.failed = TRUE]
               /\ cache' = cache
    /\ UNCHANGED <<log, first, ui, nops>>
\* Lines 27, 31-32 (and 34 after the last attempt): translator.translate(s)
\* raises; sleep a second; retry, or fall back once the loop is over.
ProviderRaise ==
    /\ tu.st = "loop"
    /\ LET f == Failed(tu)
       IN IF Exhausted(f.i)
          THEN /\ tu' = [f EXCEPT !.st = "ret", !.ret = Fallback(f),
                                  !.ev = @ \o <<"fallback", "return">>]
               /\ op' = Deliver([op EXCEPT !.failed = TRUE], Fallback(f))
          ELSE /\ tu' = f
               /\ op' = [op EXCEPT !.failed = TRUE]
    /\ UNCHANGED <<cache, log, first, ui, nops>>

\* The walker passes its next unit (lines 44, 48, 59, 73, 77).
Visit ==
    /\ op.kind \in {"txt", "csv", "xlsx"}
    /\ op.st = "walking"
    /\ tu.st # "loop"
    /\ StartCall(op, UnitAt(op), op.p)
    /\ UNCHANGED <<ui, nops>>

\* st.error(f"Error translating ...: {e}") for the exception e.
ErrorUi(e) == [msgs |-> <<"error">>, why |-> e, dl |-> NoDownload]

\* The click on Translate for a .csv name (lines 117-124, 41): pd.read_csv
\* raises, or hands over a table.
MainCsv(name, p) ==
    /\ Fresh
    /\ KindOf(name) = "csv"
    /\ LET o == [IdleOp EXCEPT !.kind = "csv", !.name = name, !.p = p, !.pre = cache] IN
       \/ /\ op' = [o EXCEPT !.st = "done"]
          /\ ui' = ErrorUi("parse")
       \/ /\ \E t \in Tables :
                op' = Settle([o EXCEPT !.st = "walking", !.si = 1,
                                       !.doc = <<[name |-> <<>>, df |-> t]>>])
          /\ ui' = NoUi
    /\ UNCHANGED <<cache, tu, log, first, nops>>

\* The click for a .xlsx / .xls name (lines 117-121, 152-154, 68).
MainExcel(name, p) ==
    /\ Fresh
    /\ KindOf(name) = "xlsx"
    /\ LET o == [IdleOp EXCEPT !.kind = "xlsx", !.name = name, !.p = p, !.pre = cache] IN
       \/ /\ op' = [o EXCEPT !.st = "done"]
          /\ ui' = ErrorUi("parse")
       \/ /\ \E w \in Workbooks :
                op' = Settle([o EXCEPT !.st = "walking", !.si = 1, !.doc = w])
          /\ ui' = NoUi
    /\ UNCHANGED <<cache, tu, log, first, nops>>

\* The click for a .txt name (lines 117-121, 137-139, 58): the permissive
\* decode never raises.
MainTxt(name, p) ==
    /\ Fresh
    /\ KindOf(name) = "txt"
    /\ \E c \in TxtContents :
          op' = [IdleOp EXCEPT !.kind = "txt", !.name = name, !.p = p, !.pre = cache,
                               !.st = "walking", !.text = Str(c)]
    /\ ui' = NoUi
    /\ UNCHANGED <<cache, tu, log, first, nops>>

\* The click for any other name (lines 117-121, 167-168).
MainOther(name, p) ==
    /\ Fresh
    /\ KindOf(name) = "other"
    /\ op' = [IdleOp EXCEPT !.kind = "other", !.name = name, !.p = p, !.st = "done"]
    /\ ui' = ErrorUi("unsupported")
    /\ UNCHANGED <<cache, tu, log, first, nops>>

CsvMime == "text/csv"
TxtMime == "text/plain"
XlsxMime == "application/vnd.openxmlformats-officedocument.spreadsheetml.sheet"

\* Whether every text of a frame can be encoded as UTF-8.
FrameEncodable(df) ==
    /\ \A j \in 1..NCols(df) : Encodable(df.cols[j].s)
    /\ \A i \in 1..NRows(df) : \A j \in 1..NCols(df) : Encodable(df.rows[i][j].s)

\* Lines 51-54 and 125-135, 80-87 and 155-165: the frame(s) are written
\* out inside the walker, before anything is shown; a writer that raises
\* leaves only the error.  The CSV walker returns a str (to_csv into a
\* StringIO encodes nothing): st.success is shown (line 126), then
\* st.download_button encodes the str and raises when a text holds a lone
\* surrogate, and the except of lines 134-135 adds the error.
FinishFrames ==
    /\ op.kind \in {"csv", "xlsx"}
    /\ op.st = "walked"
    /\ op' = [op EXCEPT !.st = "done"]
    /\ \/ ui' = ErrorUi("write")
       \/ /\ op.kind = "csv"
          /\ ~FrameEncodable(op.sheets[1].df)
          /\ ui' = [msgs |-> <<"success", "error">>, why |-> "encode", dl |-> NoDownload]
       \/ /\ op.kind = "xlsx" \/ FrameEncodable(op.sheets[1].df)
          /\ ui' = [msgs |-> <<"success", "download">>, why |-> "",
                    dl |-> [file_name |-> OutName(op.name, IF op.kind = "csv" THEN DotCsv ELSE DotXlsx),
                            fmt |-> op.kind, text |-> None, sheets |-> op.sheets,
                            mime |-> IF op.kind = "csv" THEN CsvMime ELSE XlsxMime]]
    /\ UNCHANGED <<cache, tu, log, first, nops>>

\* Lines 140-150: st.success is shown, then translated_content.encode
\* ("utf-8") is evaluated for the download button.
FinishTxt ==
    /\ op.kind = "txt"
    /\ op.st = "walked"
    /\ op' = [op EXCEPT !.st = "done"]
    /\ ui' = IF Encodable(op.out.s)
             THEN [msgs |-> <<"success", "download">>, why |-> "",
                   dl |-> [file_name |-> OutName(op.name, DotTxt), fmt |-> "txt",
                           text |-> op.out, sheets |-> <<>>, mime |-> TxtMime]]
             ELSE [msgs |-> <<"success", "error">>, why |-> "encode", dl |-> NoDownload]
    /\ UNCHANGED <<cache, tu, log, first, nops>>

\* Direct callers of translate_text_string.
Next ==
    \/ \E v \in UnitValues, p \in Pairs : UnitCall(v, p)
    \/ ProviderRaise
    \/ \E zh \in Outs : ProviderReturn(zh)

Spec == Init /\ [][Next]_vars

\* The file operations of main().
NextFiles ==
    \/ \E name \in FileNames, p \in FilePairs : MainCsv(name, p)
    \/ \E name \in FileNames, p \in FilePairs : MainTxt(name, p)
    \/ \E name \in FileNames, p \in FilePairs : MainExcel(name, p)
    \/ \E name \in FileNames, p \in FilePairs : MainOther(name, p)
    \/ Visit
    \/ ProviderRaise
    \/ \E zh \in Outs : ProviderReturn(zh)
    \/ FinishFrames
    \/ FinishTxt

SpecFiles == Init /\ [][NextFiles]_vars

---------------------------------------------------------------------------
\* Properties.

\* A value that is null, empty or whitespace-only.
BlankValue(v) ==
    \/ v = None
    \/ v.t = "str" /\ \A x \in 1..Len(v.s) : v.s[x] \in Whitespace

\* trim(to_text(value))
Trimmed(v) == strip(to_text(v))

\* C1: a call with a null, empty or whitespace-only value returns that very
\* value, and the provider is not called during it.
C1_IdentityOnBlank ==
    (tu.st # "idle" /\ BlankValue(tu.text)) =>
        /\ tu.st = "ret"
        /\ tu.ret = tu.text
        /\ tu.n = 0
        /\ tu.sent = {}

C1_Witness ==
    /\ tu.st = "ret"
    /\ tu.text = Str(<<" ">>)
    /\ tu.ret = Str(<<" ">>)
    /\ tu.ev = <<"blank", "return">>

\* C2 as stated: two calls in a row with the same trimmed non-blank text
\* invoke the provider at most once in total, and the second returns the
\* value of the first.
C2_AtMostOneInvocation ==
    (tu.st = "ret" /\ tu.s # <<>> /\ tu.prev.s = tu.s) =>
        /\ tu.prev.n + tu.n <= 1
        /\ tu.ret = tu.prev.ret

\* C2 as amended: once the provider has returned a translation of a text,
\* a call with that trimmed text makes no provider call and returns that
\* translation.
C2_NoInvocationOnceTranslated ==
    (tu.st # "idle" /\ tu.had) =>
        /\ tu.st = "ret"
        /\ tu.n = 0
        /\ tu.ret = Str(first[tu.s])

C2_Witness ==
    /\ tu.st = "ret"
    /\ tu.had
    /\ tu.prev.s = tu.s
    /\ tu.prev.n = 2
    /\ tu.n = 0
    /\ tu.ret = tu.prev.ret

\* C3: after three failed attempts the call returns the trimmed original
\* text, a str, without raising and without a fourth attempt.
C3_RetryThenFallback ==
    /\ tu.i <= 3
    /\ tu.i = 3 =>
        /\ tu.st = "ret"
        /\ tu.n = 3
        /\ tu.ret = Str(Trimmed(tu.text))
        /\ tu.ret # None

C3_Witness ==
    /\ tu.i = 3
    /\ tu.text = Str(<<" ", "a">>)
    /\ tu.ret = Str(<<"a">>)

\* A cell that is missing in the parsed document, or blank.
MissingOrBlank(v) == v = NaN \/ BlankValue(v)

\* The frames in and out agree wherever in holds a missing or blank value.
MissingKept(in, out) ==
    /\ \A j \in 1..NCols(in) : MissingOrBlank(in.cols[j]) => out.cols[j] = in.cols[j]
    /\ \A i \in 1..NRows(in) : \A j \in 1..NCols(in) :
          MissingOrBlank(in.rows[i][j]) => out.rows[i][j] = in.rows[i][j]

\* C4 as stated: in the table and spreadsheet walkers a missing or blank
\* cell is never sent to the provider and is unchanged in the output.
C4_MissingPassThrough ==
    op.kind \in {"csv", "xlsx"} =>
        /\ (tu.st # "idle" /\ MissingOrBlank(tu.text)) =>
              (tu.st = "ret" /\ tu.n = 0 /\ tu.ret = tu.text)
        /\ op.st = "walked" =>
              \A x \in 1..Len(op.doc) : MissingKept(op.doc[x].df, op.sheets[x].df)

\* C5 as stated: what a call under pair P returns for a non-blank text is
\* the fallback or a result the provider for P returned for that text.
C5_PairCorrect ==
    (tu.st = "ret" /\ tu.s # <<>>) =>
        \/ tu.ret = Str(Trimmed(tu.text))
        \/ <<tu.p, tu.s, tu.ret.s>> \in log

\* C6: every cache entry is what the provider returned for its key on the
\* first success, and no step overwrites or removes an entry.
C6_CacheInvariant ==
    /\ [](\A k \in DOMAIN cache : k \in DOMAIN first /\ cache[k] = first[k])
    /\ [][\A k \in DOMAIN cache : k \in DOMAIN cache' /\ cache'[k] = cache[k]]_vars

C6_Witness ==
    /\ Cardinality(DOMAIN cache) = 2
    /\ tu.st = "ret"
    /\ tu.ev = <<"hit", "return">>

\* out is a result of translate_unit for in: in itself when blank, else
\* the trimmed text (fallback) or the translation the provider returned.
TranslationOf(in, out) ==
    IF BlankValue(in) THEN out = in
    ELSE \/ out = Str(Trimmed(in))
         \/ Trimmed(in) \in DOMAIN first /\ out = Str(first[Trimmed(in)])

\* out has the rows and columns of in, and holds at every position a
\* translation of what in holds there.
FrameTranslated(in, out) ==
    /\ NCols(out) = NCols(in)
    /\ NRows(out) = NRows(in)
    /\ \A j \in 1..NCols(in) : TranslationOf(in.cols[j], out.cols[j])
    /\ \A i \in 1..NRows(in) :
          /\ Len(out.rows[i]) = NCols(in)
          /\ \A j \in 1..NCols(in) : TranslationOf(in.rows[i][j], out.rows[i][j])

\* C7: the table walker's output has the N rows and M columns of its
\* input in the same order, each header and cell being translate_unit of
\* the one at the same position.
C7_TableShape ==
    op.kind = "csv" =>
        /\ op.st = "walked" =>
              Len(op.sheets) = 1 /\ FrameTranslated(op.doc[1].df, op.sheets[1].df)
        /\ ui.dl.fmt = "csv" =>
              Len(ui.dl.sheets) = 1 /\ FrameTranslated(op.doc[1].df, ui.dl.sheets[1].df)

C7_Witness ==
    /\ op.kind = "csv"
    /\ ui.dl.fmt = "csv"
    /\ op.doc[1].df.cols = <<Str(<<"a">>), Str(<<"b">>)>>
    /\ NRows(op.doc[1].df) = 1
    /\ ui.dl.sheets[1].df.cols = <<Str(<<"x">>), Str(<<"x">>)>>
    /\ NRows(ui.dl.sheets[1].df) = 1

NamesOf(sheets) == [x \in 1..Len(sheets) |-> sheets[x].name]

\* The header names and cells of a frame.
ContentOf(df) ==
    {df.cols[j] : j \in 1..NCols(df)}
        \cup {df.rows[i][j] : i \in 1..NRows(df), j \in 1..NCols(df)}

\* C8: the spreadsheet walker's output has the input's sheets, in order,
\* under their own names; what is passed to translate_unit is a header or
\* a cell of a sheet, never a sheet name.
C8_SheetsKept ==
    op.kind = "xlsx" =>
        /\ op.st = "walked" => NamesOf(op.sheets) = NamesOf(op.doc)
        /\ ui.dl.fmt = "xlsx" => NamesOf(ui.dl.sheets) = NamesOf(op.doc)
        /\ tu.st # "idle" =>
              /\ \E x \in 1..Len(op.doc) : tu.text \in ContentOf(op.doc[x].df)
              /\ \A x \in 1..Len(op.doc) :
                    tu.text # Str(op.doc[x].name) /\ op.doc[x].name \notin tu.sent

C8_Witness ==
    /\ op.kind = "xlsx"
    /\ ui.dl.fmt = "xlsx"
    /\ NamesOf(op.doc) = <<<<"S", "2">>, <<"S", "1">>>>
    /\ NamesOf(ui.dl.sheets) = <<<<"S", "2">>, <<"S", "1">>>>
    /\ ui.dl.sheets[1].df.cols = <<Str(<<"x">>)>>
    /\ ui.dl.sheets[2].df.cols = <<Str(<<"b">>)>>

\* The translatable positions of an operation's document.
UnitsOf(o) == IF o.kind = "txt" THEN 1 ELSE TotalUnits(o.doc)

\* What is left of a walk: the units not yet passed, each weighed with the
\* steps a call can take, plus the attempts left to the call in progress.
Rank ==
    (UnitsOf(op) - op.calls) * (MaxAttempts + 2)
        + (IF tu.st = "loop" THEN MaxAttempts + 1 - tu.i ELSE 0)

\* C9: a walk that has started terminates, whatever the provider does: a
\* walk in progress has a call under way or a unit at hand, no step aborts
\* it, every step lowers the natural number Rank, and when the walk is
\* over every unit has been passed to translate_unit.
C9_WalkCompletes ==
    /\ [](op.st = "walking" =>
            /\ Rank > 0
            /\ tu.st = "loop" \/ op.kind = "txt" \/ op.pos.ph # "end")
    /\ [](Rank >= 0)
    /\ [][op.st = "walking" =>
            /\ op'.st \in {"walking", "walked"}
            /\ Rank' < Rank]_vars
    /\ [](op.st = "walked" => (Rank = 0 /\ op.calls = UnitsOf(op)))

C9_Witness ==
    /\ op.kind = "csv"
    /\ op.st = "walked"
    /\ op.calls = 4
    /\ DOMAIN cache = {}
    /\ tu.i = 3

\* C10 as stated: a file operation ends either in success with a complete
\* download or in one error message and no download; nothing is shown
\* before it ends.
C10_AllOrNothing ==
    op.kind \in {"csv", "txt", "xlsx"} =>
        /\ op.st \in {"walking", "walked"} => ui = NoUi
        /\ op.st = "done" =>
              \/ /\ ui.msgs = <<"success", "download">>
                 /\ ui.dl.file_name # <<>>
                 /\ ui.dl.fmt = op.kind
                 /\ ui.dl.mime # "none"
              \/ /\ ui.msgs = <<"error">>
                 /\ ui.why \in {"parse", "write", "encode"}
                 /\ ui.dl = NoDownload

\* The capital of a letter of the four extensions.
CapitalOf(c) ==
    CASE c = "c" -> "C"
      [] c = "s" -> "S"
      [] c = "v" -> "V"
      [] c = "t" -> "T"
      [] c = "x" -> "X"
      [] c = "l" -> "L"
      [] OTHER -> c

\* The name ends in ext, each letter in either case.
EndsIn(name, ext) ==
    /\ Len(name) >= Len(ext)
    /\ \A x \in 1..Len(ext) :
          name[Len(name) - Len(ext) + x] \in {ext[x], CapitalOf(ext[x])}

\* A name that ends in .csv, .txt, .xlsx or .xls, in any case.
SupportedName(name) ==
    \E ext \in {DotCsv, DotTxt, DotXlsx, DotXls} : EndsIn(name, ext)

\* C11: a file whose name ends in none of .csv, .txt, .xlsx, .xls is
\* answered with the unsupported-format error alone: nothing was read or
\* parsed, translate_unit and the provider were not called, and no
\* download is offered.
C11_UnsupportedRejected ==
    (op.kind \notin {"none", "unit"} /\ ~SupportedName(op.name)) =>
        /\ op.st = "done"
        /\ ui = ErrorUi("unsupported")
        /\ ui.dl = NoDownload
        /\ op.doc = <<>> /\ op.text = None /\ op.sheets = <<>>
        /\ op.calls = 0
        /\ tu = IdleFrame
        /\ cache = <<>> /\ log = {}

C11_Witness ==
    /\ op.name = <<"r", ".", "c", "s", "v", ".", "b">>
    /\ op.kind = "other"
    /\ ui.msgs = <<"error">>
    /\ ui.why = "unsupported"

\* name without its last n characters
DropLast(name, n) == SubSeq(name, 1, Len(name) - n)

\* The output name the naming rule gives a supported input name: the name
\* without its final extension, then _translated, then the extension of
\* the output format.
NamedOutput(name) ==
    CASE EndsIn(name, DotCsv) -> DropLast(name, Len(DotCsv)) \o Translated \o DotCsv
      [] EndsIn(name, DotTxt) -> DropLast(name, Len(DotTxt)) \o Translated \o DotTxt
      [] EndsIn(name, DotXlsx) -> DropLast(name, Len(DotXlsx)) \o Translated \o DotXlsx
      [] EndsIn(name, DotXls) -> DropLast(name, Len(DotXls)) \o Translated \o DotXlsx
      [] OTHER -> <<>>

\* C12: the download of a supported input is named after the input: its
\* final extension stripped, _translated appended, then .csv, .txt or
\* .xlsx (.xlsx for an .xls input too).
C12_OutputNaming ==
    ui.dl # NoDownload =>
        /\ SupportedName(op.name)
        /\ ui.dl.file_name = NamedOutput(op.name)

C12_Witness ==
    /\ op.name = <<"d", ".", "x", "l", "s">>
    /\ ui.dl.file_name = <<"d">> \o Translated \o <<".", "x", "l", "s", "x">>
    /\ ui.msgs = <<"success", "download">>

\* C13: a call that used up its attempts and returned the fallback leaves
\* the cache as it found it, its key still absent; the next call with the
\* same key is not answered from the cache but calls the provider again.
C13_FallbackNotCached ==
    /\ (tu.st = "ret" /\ tu.i = MaxAttempts) =>
          /\ cache = tu.pre
          /\ tu.s \notin DOMAIN cache
    /\ (tu.st # "idle" /\ tu.s # <<>> /\ tu.prev.s = tu.s /\ tu.prev.i = MaxAttempts) =>
          /\ tu.s \notin DOMAIN tu.pre
          /\ tu.st = "loop" \/ (tu.n >= 1 /\ tu.s \in tu.sent)

C13_Witness ==
    /\ tu.st = "ret"
    /\ tu.prev.s = <<"a">>
    /\ tu.prev.i = MaxAttempts
    /\ tu.prev.ret = Str(<<"a">>)
    /\ tu.s = <<"a">>
    /\ tu.n = 1
    /\ tu.ret = Str(<<"x">>)

\* The positions of event e in a call's events.
At(ev, e) == {k \in 1..Len(ev) : ev[k] = e}

\* C14 as stated: a call on which every attempt failed went through
\* attempt, wait, attempt, wait, attempt, fallback, return in this order,
\* and every wait lies between a failed attempt and the next attempt.
C14_RetryOrdering ==
    (tu.st = "ret" /\ tu.i = MaxAttempts) =>
        /\ tu.ev = <<"attempt", "wait", "attempt", "wait", "attempt",
                     "fallback", "return">>
        /\ \A k \in At(tu.ev, "wait") :
              /\ k > 1 /\ tu.ev[k - 1] = "attempt"
              /\ k < Len(tu.ev) /\ tu.ev[k + 1] = "attempt"

\* C15: one call makes at most 3 provider calls, each but the first right
\* after a failed one and none after a success; a call still in its loop
\* has attempts left, and its next step is one more attempt or the return.
C15_BoundedAttempts ==
    /\ [](/\ tu.n <= MaxAttempts
          /\ tu.n = Cardinality(At(tu.ev, "attempt"))
          /\ \A k \in At(tu.ev, "attempt") : k > 1 => tu.ev[k - 1] = "wait"
          /\ \A k \in At(tu.ev, "store") :
                \A j \in At(tu.ev, "attempt") : j < k
          /\ Cardinality(At(tu.ev, "store")) <= 1
          /\ tu.st = "loop" => tu.n < MaxAttempts
          /\ tu.n = MaxAttempts => tu.st = "ret")
    /\ [][tu.st = "loop" => (tu'.st = "ret" \/ tu'.n = tu.n + 1)]_vars

C15_Witness ==
    /\ tu.st = "ret"
    /\ tu.n = MaxAttempts
    /\ tu.ev = <<"attempt", "wait", "attempt", "wait", "attempt", "store",
                 "pace", "return">>

\* C16: the pacing delay comes once per successful provider call, right
\* after the cache store and right before the return; a call answered by
\* the blank check, by the cache or by the fallback has none.
C16_PacingPlacement ==
    /\ \A k \in At(tu.ev, "pace") :
          /\ k > 1 /\ tu.ev[k - 1] = "store"
          /\ k < Len(tu.ev) /\ tu.ev[k + 1] = "return"
    /\ \A k \in At(tu.ev, "store") :
          /\ k > 1 /\ tu.ev[k - 1] = "attempt"
          /\ k < Len(tu.ev) /\ tu.ev[k + 1] = "pace"
    /\ Cardinality(At(tu.ev, "pace")) = tu.n - tu.i
    /\ tu.n - tu.i \in {0, 1}
    /\ (At(tu.ev, "hit") \cup At(tu.ev, "blank") \cup At(tu.ev, "fallback") # {}) =>
          At(tu.ev, "pace") = {}
    /\ (tu.st = "ret" /\ tu.n = 0) => At(tu.ev, "pace") = {}

C16_Witness ==
    /\ tu.st = "ret"
    /\ tu.text = Str(<<"b">>)
    /\ tu.ev = <<"attempt", "wait", "attempt", "store", "pace", "return">>
    /\ tu.prev.s = <<"b">>
    /\ tu.prev.i = MaxAttempts

\* The values at the translatable positions of an operation's document.
ValuesOf(o) ==
    IF o.kind = "txt" THEN {o.text}
    ELSE UNION {ContentOf(o.doc[x].df) : x \in 1..Len(o.doc)}

\* The distinct trimmed non-blank strings among an operation's units
\* that were not in the cache when it started.
NewStrings(o) ==
    {Trimmed(v) : v \in {w \in ValuesOf(o) : ~MissingOrBlank(w)}} \ DOMAIN o.pre

\* C17 as stated: a walk during which the provider never failed (so that
\* every provider call returned) made as many provider calls as its
\* document has distinct trimmed non-blank strings that were not cached
\* when it started.
C17_Dedup ==
    (op.kind \in {"csv", "txt", "xlsx"} /\ op.st = "walked" /\ ~op.failed) =>
        op.rets = Cardinality(NewStrings(op))

\* The keys at which two caches differ.
Changed(c, d) ==
    {k \in DOMAIN c \cup DOMAIN d :
        k \notin DOMAIN c \/ k \notin DOMAIN d \/ c[k] # d[k]}

\* C18: between its entry and any later point of a call the cache differs
\* at most at the key trim(to_text(value)), and only once the provider has
\* returned during the call; a call that found a blank value or a cached
\* key, and a call that fell back, leaves the cache as it was.
C18_FrameOfCall ==
    tu.st # "idle" =>
        /\ Changed(tu.pre, cache) \subseteq {Trimmed(tu.text)}
        /\ Changed(tu.pre, cache) # {} => (tu.n > tu.i /\ ~BlankValue(tu.text))
        /\ (At(tu.ev, "blank") \cup At(tu.ev, "hit") \cup At(tu.ev, "fallback") # {}) =>
              cache = tu.pre
        /\ tu.st = "loop" => cache = tu.pre

C18_Witness ==
    /\ tu.st = "ret"
    /\ tu.text = Str(<<" ", "a">>)
    /\ DOMAIN tu.pre = {<<"b">>}
    /\ DOMAIN cache = {<<"a">>, <<"b">>}
    /\ cache[<<"b">>] = tu.pre[<<"b">>]
    /\ tu.n = 1

\* C19: the text walker calls translate_unit once, with the whole decoded
\* content; the provider is called at most 3 times for the file, each time
\* with the whole trimmed content, and a blank or empty file comes back as
\* it is without a provider call.
C19_TxtSingleUnit ==
    op.kind = "txt" =>
        /\ op.calls <= 1
        /\ op.st \in {"walked", "done"} => (op.calls = 1 /\ tu.st = "ret")
        /\ tu.st # "idle" => tu.text = op.text
        /\ tu.n <= MaxAttempts
        /\ op.rets <= tu.n
        /\ tu.sent \subseteq {Trimmed(op.text)}
        /\ tu.n > 0 => tu.sent = {Trimmed(op.text)}
        /\ (BlankValue(op.text) /\ op.st \in {"walked", "done"}) =>
              /\ op.out = op.text
              /\ tu.n = 0 /\ op.rets = 0 /\ ~op.failed
              /\ op.st = "done" => ui.dl.text = op.text

C19_Witness ==
    /\ op.kind = "txt"
    /\ op.st = "done"
    /\ op.text = Str(<<"a", "\n", "b">>)
    /\ tu.sent = {<<"a", "\n", "b">>}
    /\ tu.n = MaxAttempts
    /\ op.rets = 1
    /\ ui.dl.text = Str(<<"x">>)

\* A text without its leading and trailing whitespace: what lies between
\* its first and its last character that is not whitespace.
Core(x) ==
    LET ink == {k \in 1..Len(x) : x[k] \notin Whitespace} IN
    IF ink = {} THEN <<>>
    ELSE SubSeq(x, CHOOSE k \in ink : \A l \in ink : k <= l,
                   CHOOSE k \in ink : \A l \in ink : k >= l)

\* The units of a walked document: what the input and the output hold at
\* each translatable position.
InOut(o) ==
    UNION {{<<o.doc[x].df.cols[j], o.sheets[x].df.cols[j]>> :
                j \in 1..NCols(o.doc[x].df)}
            \cup {<<o.doc[x].df.rows[i][j], o.sheets[x].df.rows[i][j]>> :
                    i \in 1..NRows(o.doc[x].df), j \in 1..NCols(o.doc[x].df)} :
           x \in 1..Len(o.doc)}

\* C20: the key of a non-blank value, and the text sent for it, is the
\* value's text without leading and trailing whitespace, and so is every
\* key of the cache.  A call for a value that differs from the previous
\* call's value only in such whitespace, that call having ended with a
\* translation, makes no provider call and returns the same translation;
\* in a walk without provider failures a header and a cell (any two units)
\* with the same trimmed text hold the same translation.
C20_KeyNormalised ==
    /\ \A k \in DOMAIN cache : k # <<>> /\ Core(k) = k
    /\ (tu.st # "idle" /\ ~BlankValue(tu.text)) =>
          /\ tu.s = Core(to_text(tu.text))
          /\ tu.sent \subseteq {Core(to_text(tu.text))}
    /\ (tu.st # "idle" /\ ~BlankValue(tu.text) /\ ~BlankValue(tu.prev.text)
            /\ tu.prev.text # tu.text
            /\ Core(to_text(tu.prev.text)) = Core(to_text(tu.text))
            /\ tu.prev.i < MaxAttempts) =>
          /\ tu.st = "ret"
          /\ tu.n = 0
          /\ tu.ret = tu.prev.ret
          /\ Cardinality({k \in DOMAIN cache : k = Core(to_text(tu.text))}) = 1
    /\ (op.kind \in {"csv", "xlsx"} /\ op.st = "walked" /\ ~op.failed) =>
          \A a, b \in InOut(op) :
              (~BlankValue(a[1]) /\ ~BlankValue(b[1])
                  /\ Core(to_text(a[1])) = Core(to_text(b[1]))) => a[2] = b[2]

C20_Witness ==
    /\ op.kind = "csv"
    /\ op.st = "walked"
    /\ op.doc[1].df = [cols |-> <<Str(<<"a">>)>>, rows |-> <<<<Str(<<" ", "a">>)>>>>]
    /\ op.sheets[1].df = [cols |-> <<Str(<<"x">>)>>, rows |-> <<<<Str(<<"x">>)>>>>]
    /\ op.rets = 1
    /\ ~op.failed
    /\ tu.prev.text = Str(<<"a">>)
    /\ tu.text = Str(<<" ", "a">>)
    /\ tu.ev = HitEvents

===========================================================================
